---- MODULE Spec2Model ----
(***************************************************************************)
(* A model of pvrcnn/model.py: the BEV feature gatherer and the PV_RCNN    *)
(* forward pass (voxelize, sparse backbone, keypoint sampling, per-scale   *)
(* PointNet extraction, BEV gathering, fusion, ROI grid pooling).          *)
(*                                                                         *)
(* Real numbers are exact rationals [n, d] with d > 0; a float division by *)
(* zero gives the IEEE values inf / nan, kept as separate kinds.           *)
(***************************************************************************)
EXTENDS Integers, Sequences, FiniteSets, TLC

VARIABLES
    bev_pc,        \* BEV gatherer: "start" | "done"
    bev_in,        \* its inputs: H, W, voxel_offset, cell size, keypoints
    bev_clamped,   \* indices after line 27 (clamp), one <<x, y>> per keypoint
    bev_norm,      \* indices returned by normalize_grid_sample_indices
    vox_in,        \* voxel generator: the points and the grid configuration
    vox_i,         \* index of the next point generate() looks at
    vox_state,     \* the voxels built so far, in creation order
    roi_in,        \* ROI grid pooling: boxes, keypoints, descriptors, radius
    roi_k,         \* number of the next (box, grid point) pair to pool
    roi_out,       \* pooled feature of every pair pooled so far
    pc,            \* forward: the statement about to run
    points,        \* forward's argument, a sequence of [xyz, f]
    cfg,           \* PvrcnnConfig: n_keypoints, mlps
    voxels,        \* voxel_generator.generate's result
    vfe_out,       \* voxelize's result: [features, coordinates]
    cnn_out,       \* [(xyz, features)] per scale, the raw points first
    final_volume,  \* shape [C, D, H, W] of the backbone's dense volume
    kp_indices,    \* furthest_point_sample's result
    keypoints,     \* keypoints_xyz
    pnet_out,      \* one (channels x keypoints) table per PointNet module
    bev_out,       \* the BEV (channels x keypoints) table
    features,      \* torch.cat(pnet_out + [bev_out], dim=1)
    proposals,     \* the boxes built at line 151
    pooled,        \* roi_grid_pool's result
    trace,         \* the stages completed so far, in order
    calls          \* the arguments each consumer was called with

bevVars == <<bev_pc, bev_in, bev_clamped, bev_norm>>
voxVars == <<vox_in, vox_i, vox_state>>
roiVars == <<roi_in, roi_k, roi_out>>

fwdVars == <<pc, points, cfg, voxels, vfe_out, cnn_out, final_volume, kp_indices,
             keypoints, pnet_out, bev_out, features, proposals, pooled, trace,
             calls>>

vars == <<bev_pc, bev_in, bev_clamped, bev_norm, vox_in, vox_i, vox_state,
          roi_in, roi_k, roi_out, pc, points, cfg, voxels, vfe_out, cnn_out,
          final_volume, kp_indices, keypoints, pnet_out, bev_out, features,
          proposals, pooled, trace, calls>>

(***************************************************************************)
(* Arithmetic helpers                                                      *)
(***************************************************************************)
Min(a, b) == IF a <= b THEN a ELSE b
Max(a, b) == IF a >= b THEN a ELSE b

Rat(n, d) == [n |-> n, d |-> d]
RatLe(a, b) == a.n * b.d <= b.n * a.d
RatEq(a, b) == a.n * b.d = b.n * a.d
RatOfInt(i) == Rat(i, 1)

\* torch.clamp(v, 0)
ClampLow(v) == IF v.n < 0 THEN Rat(0, v.d) ELSE v
\* torch.min(v, dim) for an integer dim
MinWithInt(v, dim) == IF RatLe(v, RatOfInt(dim)) THEN v ELSE Rat(dim * v.d, v.d)

\* Float results: a finite rational, +inf or nan.
Fin(n, d) == [k |-> "fin", n |-> n, d |-> d]
Inf == [k |-> "inf", n |-> 1, d |-> 1]
NaN == [k |-> "nan", n |-> 0, d |-> 1]

\* 2 * (c / den) - 1 in float arithmetic, c >= 0 a rational, den an integer.
ScaleToUnit(c, den) ==
    IF den = 0 THEN (IF c.n = 0 THEN NaN ELSE Inf)
    ELSE IF den > 0 THEN Fin(2 * c.n - den * c.d, den * c.d)
    ELSE Fin((den * c.d) - 2 * c.n, (0 - den) * c.d)

(***************************************************************************)
(* BEV_FeatureGatherer                                                     *)
(***************************************************************************)
\* image_dims = [H - 1, W - 1], matched by position with the (x, y) index.
image_dims(H, W) == <<H - 1, W - 1>>

\* Line 27: indices = torch.min(torch.clamp(indices, 0), image_dims)
clamp_indices(indices, H, W) ==
    [i \in DOMAIN indices |->
        [a \in 1..2 |-> MinWithInt(ClampLow(indices[i][a]), image_dims(H, W)[a])]]

\* Line 28: indices = 2 * (indices / (image_dims - 1)) - 1
scale_indices(clamped, H, W) ==
    [i \in DOMAIN clamped |->
        [a \in 1..2 |-> ScaleToUnit(clamped[i][a], image_dims(H, W)[a] - 1)]]

normalize_grid_sample_indices(indices, H, W) ==
    scale_indices(clamp_indices(indices, H, W), H, W)

\* (keypoint.xy - voxel_offset.xy) / (base_voxel_size.xy * strides[-1])
raw_bev_indices(keypoint_xy, voxel_offset, cell) ==
    [i \in DOMAIN keypoint_xy |->
        [a \in 1..2 |-> Rat(keypoint_xy[i][a] - voxel_offset[a], cell[a])]]

compute_bev_indices(keypoint_xy, voxel_offset, cell, H, W) ==
    normalize_grid_sample_indices(
        raw_bev_indices(keypoint_xy, voxel_offset, cell), H, W)

(***************************************************************************)
(* Specification SpecBEV: compute_bev_indices on bounded inputs            *)
(***************************************************************************)
MaxDim == 4          \* H, W range over 1..MaxDim
MaxBevCoord == 5     \* keypoint x, y range over -1..MaxBevCoord
MaxCell == 2         \* base_voxel_size * stride ranges over 1..MaxCell
MaxBevKeypoints == 1 \* keypoints per call

BevCoords == (0 - 1)..MaxBevCoord
BevKeypoints ==
    UNION {[1..n -> BevCoords \X BevCoords] : n \in 1..MaxBevKeypoints}

BevInputs ==
    [H : 1..MaxDim, W : 1..MaxDim,
     voxel_offset : {<<0, 0>>, <<1, 0>>},
     cell : {<<c, c>> : c \in 1..MaxCell},
     keypoint_xy : BevKeypoints]

BevIdle ==
    /\ bev_pc = "idle"
    /\ bev_in = <<>>
    /\ bev_clamped = <<>>
    /\ bev_norm = <<>>

BevStart ==
    /\ bev_pc = "start"
    /\ bev_in \in BevInputs
    /\ bev_clamped = <<>>
    /\ bev_norm = <<>>

BevIndices ==
    /\ bev_pc = "start"
    /\ bev_clamped' = clamp_indices(
           raw_bev_indices(bev_in.keypoint_xy, bev_in.voxel_offset, bev_in.cell),
           bev_in.H, bev_in.W)
    /\ bev_norm' = compute_bev_indices(bev_in.keypoint_xy, bev_in.voxel_offset,
                                       bev_in.cell, bev_in.H, bev_in.W)
    /\ bev_pc' = "done"
    /\ UNCHANGED bev_in

(***************************************************************************)
(* Voxel generator (spconv.utils.VoxelGenerator, configured at lines 70-75)*)
(***************************************************************************)
\* A voxel: its integer coordinate in Z, Y, X order and the indices of the
\* points it holds, in arrival order.  Occupancy is Len(pts).
Voxel(coord, pts) == [coord |-> coord, pts |-> pts]

\* Faulty variant: the two caps handed to the generator in each other's place
build_voxel_generator_SwapCaps(c) ==
    [voxel_size |-> c.voxel_size,
     bounds_min |-> <<c.grid_bounds[1], c.grid_bounds[2], c.grid_bounds[3]>>,
     bounds_max |-> <<c.grid_bounds[4], c.grid_bounds[5], c.grid_bounds[6]>>,
     max_voxels |-> c.max_num_points,
     max_num_points |-> c.max_voxels]

\* Lines 70-75: the generator's parameters, taken from the configuration.
\* cfg.grid_bounds is <<x0, y0, z0, x1, y1, z1>>.
build_voxel_generator(c) ==
    [voxel_size |-> c.voxel_size,
     bounds_min |-> <<c.grid_bounds[1], c.grid_bounds[2], c.grid_bounds[3]>>,
     bounds_max |-> <<c.grid_bounds[4], c.grid_bounds[5], c.grid_bounds[6]>>,
     max_voxels |-> c.max_voxels,
     max_num_points |-> c.max_num_points]

grid_size(g) ==
    [a \in 1..3 |-> (g.bounds_max[a] - g.bounds_min[a]) \div g.voxel_size[a]]

\* Line 76: grid_shape = grid_size[::-1] + [1, 0, 0]
build_grid_shape(g) ==
    <<grid_size(g)[3] + 1, grid_size(g)[2], grid_size(g)[1]>>

\* floor((coord - bounds_min) / voxel_size) per axis, in X, Y, Z order
VoxelIndex(xyz, g) ==
    [a \in 1..3 |-> (xyz[a] - g.bounds_min[a]) \div g.voxel_size[a]]

InBounds(xyz, g) ==
    \A a \in 1..3 : VoxelIndex(xyz, g)[a] >= 0
                    /\ VoxelIndex(xyz, g)[a] < grid_size(g)[a]

\* X, Y, Z -> Z, Y, X
ReverseXYZ(c) == <<c[3], c[2], c[1]>>

VoxelCoord(xyz, g) == ReverseXYZ(VoxelIndex(xyz, g))

VoxelAt(state, coord) == {v \in DOMAIN state : state[v].coord = coord}

\* One point of generate(): the voxels after point number i, at xyz, is seen.
VoxAdd(state, i, xyz, g) ==
    IF ~InBounds(xyz, g) THEN state
    ELSE LET c == VoxelCoord(xyz, g)
             at == VoxelAt(state, c)
         IN IF at # {}
            THEN LET v == CHOOSE w \in at : TRUE
                 IN IF Len(state[v].pts) < g.max_num_points
                    THEN [state EXCEPT ![v].pts = Append(@, i)]
                    ELSE state
            ELSE IF Len(state) < g.max_voxels
                 THEN Append(state, Voxel(c, <<i>>))
                 ELSE state

RECURSIVE GenerateFrom(_, _, _, _)
GenerateFrom(state, i, xyzs, g) ==
    IF i > Len(xyzs) THEN state
    ELSE GenerateFrom(VoxAdd(state, i, xyzs[i], g), i + 1, xyzs, g)

\* voxel_generator.generate(points)
generate(xyzs, g) == GenerateFrom(<<>>, 1, xyzs, g)

(***************************************************************************)
(* Specification SpecVox: generate() one point at a time                   *)
(***************************************************************************)
MaxVoxPoints == 3    \* points per cloud
MaxVoxelCap == 2     \* max_voxels ranges over 1..MaxVoxelCap
MaxPointCap == 2     \* max_num_points ranges over 1..MaxPointCap

\* Three cells along X inside the grid, and one position outside it.
VoxPositions == {<<0, 0, 0>>, <<1, 0, 0>>, <<2, 0, 0>>, <<3, 1, 0>>, <<7, 0, 0>>}

VoxConfigs ==
    [voxel_size : {<<2, 1, 1>>, <<1, 1, 1>>},
     grid_bounds : {<<0, 0, 0, 4, 2, 1>>},
     max_voxels : 1..MaxVoxelCap,
     max_num_points : 1..MaxPointCap]

VoxClouds == UNION {[1..n -> VoxPositions] : n \in 0..MaxVoxPoints}

VoxIdle ==
    /\ vox_in = <<>>
    /\ vox_i = 0
    /\ vox_state = <<>>

VoxStart ==
    /\ vox_in \in [points : VoxClouds, cfg : VoxConfigs]
    /\ vox_i = 1
    /\ vox_state = <<>>

VoxStep ==
    /\ vox_i >= 1
    /\ vox_i <= Len(vox_in.points)
    /\ vox_state' = VoxAdd(vox_state, vox_i, vox_in.points[vox_i],
                            build_voxel_generator(vox_in.cfg))
    /\ vox_i' = vox_i + 1
    /\ UNCHANGED vox_in

(***************************************************************************)
(* ROI grid pooling (pvrcnn.roi_grid_pool.RoiGridPool, called at line 152) *)
(*                                                                         *)
(* A box is <<cx, cy, cz, sx, sy, sz, heading>>, every value a numerator   *)
(* over the common denominator den.  Grid points are kept in units of      *)
(* 1 / (den * 2R), so that the lattice offsets are integers.  The heading  *)
(* is rounded to the nearest quarter turn (pi/2 taken as 157/100).         *)
(***************************************************************************)
Dist2(p, q) ==
    (p[1] - q[1]) * (p[1] - q[1]) + (p[2] - q[2]) * (p[2] - q[2])
    + (p[3] - q[3]) * (p[3] - q[3])

QuarterTurns(heading, den) == ((200 * heading + 157 * den) \div (314 * den)) % 4

RotateZ(v, q) ==
    CASE q = 0 -> v
      [] q = 1 -> <<0 - v[2], v[1], v[3]>>
      [] q = 2 -> <<0 - v[1], 0 - v[2], v[3]>>
      [] OTHER -> <<v[2], 0 - v[1], v[3]>>

GridIndices(R) == (1..R) \X (1..R) \X (1..R)

\* Lattice point g of the box, local frame: size * ((2g - 1) / 2R - 1/2)
GridLocal(box, R, g) == [a \in 1..3 |-> box[3 + a] * (2 * g[a] - 1 - R)]

\* Rotated by the heading and translated by the centre
GridPoint(box, den, R, g) ==
    LET rot == RotateZ(GridLocal(box, R, g), QuarterTurns(box[7], den))
    IN [a \in 1..3 |-> box[a] * 2 * R + rot[a]]

\* Keypoints within radius of the grid point
BallQuery(gp, kps, radius, den, R) ==
    {i \in DOMAIN kps :
        Dist2([a \in 1..3 |-> kps[i][a] * den * 2 * R], gp)
            <= (radius * den * 2 * R) * (radius * den * 2 * R)}

SetMax(S) == CHOOSE m \in S : \A x \in S : x <= m

MaxPool(rows, channels) == [c \in 1..channels |-> SetMax({r[c] : r \in rows})]

ZeroFeature(channels) == [c \in 1..channels |-> 0]

\* Faulty variant: an empty ball takes the first keypoint's descriptor
PoolGridPoint_FirstKeypoint(box, g, kps, feats, channels, radius, den, R) ==
    LET near == BallQuery(GridPoint(box, den, R, g), kps, radius, den, R)
    IN IF near = {}
       THEN (IF kps = <<>> THEN ZeroFeature(channels) ELSE feats[1])
       ELSE MaxPool({feats[i] : i \in near}, channels)

PoolGridPoint(box, g, kps, feats, channels, radius, den, R) ==
    LET near == BallQuery(GridPoint(box, den, R, g), kps, radius, den, R)
    IN IF near = {} THEN ZeroFeature(channels)
       ELSE MaxPool({feats[i] : i \in near}, channels)

RoiGridPool(boxes, kps, feats, channels, radius, den, R) ==
    [b \in DOMAIN boxes |->
        [g \in GridIndices(R) |->
            PoolGridPoint(boxes[b], g, kps, feats, channels,
                          radius, den, R)]]

(***************************************************************************)
(* Specification SpecRoi: RoiGridPool one (box, grid point) pair at a time *)
(***************************************************************************)
MaxRoiBoxes == 1     \* boxes per call
MaxRoiKeypoints == 1 \* keypoints per call, from 0
MaxRadius == 1       \* ball-query radius ranges over 1..MaxRadius

\* The configured lattice resolution R
RoiCfg == [grid_size |-> 2]

RoiBoxChoices ==
    {<<0, 0, 0, 4, 4, 0, 0>>, <<4, 0, 0, 8, 4, 0, 2>>, <<9, 9, 9, 0, 0, 0, 0>>}
RoiKeypointChoices == {<<0, 0, 0>>, <<1, 1, 0>>, <<5, 0, 0>>}
RoiFeatureChoices == {<<0 - 2>>, <<3>>}

RoiInputs ==
    UNION {[boxes : UNION {[1..m -> RoiBoxChoices] : m \in 1..MaxRoiBoxes},
            keypoints : [1..n -> RoiKeypointChoices],
            features : [1..n -> RoiFeatureChoices],
            radius : 1..MaxRadius] : n \in 0..MaxRoiKeypoints}

RoiPairs(boxes, R) == Len(boxes) * R * R * R

\* The k-th pair, boxes outermost, then z, y, x
RoiPair(k, R) ==
    LET j == (k - 1) % (R * R * R)
    IN <<((k - 1) \div (R * R * R)) + 1,
         <<(j % R) + 1, ((j \div R) % R) + 1, (j \div (R * R)) + 1>> >>

RoiIdle ==
    /\ roi_in = <<>>
    /\ roi_k = 0
    /\ roi_out = <<>>

RoiStart ==
    /\ roi_in \in RoiInputs
    /\ roi_k = 1
    /\ roi_out = <<>>

RoiStep ==
    /\ roi_k >= 1
    /\ roi_k <= RoiPairs(roi_in.boxes, RoiCfg.grid_size)
    /\ LET e == RoiPair(roi_k, RoiCfg.grid_size)
       IN roi_out' = [x \in DOMAIN roi_out \cup {e} |->
                        IF x = e
                        THEN PoolGridPoint(roi_in.boxes[e[1]], e[2],
                                 roi_in.keypoints, roi_in.features, 1,
                                 roi_in.radius, 1, RoiCfg.grid_size)
                        ELSE roi_out[x]]
    /\ roi_k' = roi_k + 1
    /\ UNCHANGED roi_in

(***************************************************************************)
(* PV_RCNN: the operations forward calls                                   *)
(***************************************************************************)
SetMin(S) == CHOOSE m \in S : \A x \in S : m <= x

RECURSIVE SumSeq(_)
SumSeq(q) == IF q = <<>> THEN 0 ELSE q[1] + SumSeq(Tail(q))

RECURSIVE Concat(_)
Concat(tables) == IF tables = <<>> THEN <<>>
                  ELSE tables[1] \o Concat(Tail(tables))

\* The point as the 4-vector the voxel generator and the VFE see
Point4(p) == <<p.xyz[1], p.xyz[2], p.xyz[3], p.f>>

\* VoxelFeatureExtractor: the mean of the voxel's points, as sums over a count
vfe(vox, pts) ==
    [v \in DOMAIN vox |->
        [sum |-> [c \in 1..4 |->
                    SumSeq([m \in DOMAIN vox[v].pts |-> Point4(pts[vox[v].pts[m]])[c]])],
         count |-> Max(Len(vox[v].pts), 1)]]

\* Line 103: np.pad(coordinates, ((0, 0), (1, 0))), a batch column of 0
pad_coordinates(vox) == [v \in DOMAIN vox |-> <<0>> \o vox[v].coord]

\* Lines 102-108, after generate
voxelize(vox, pts) ==
    [features |-> vfe(vox, pts), coordinates |-> pad_coordinates(vox)]

\* SparseCNN, scale s: the voxel centres at stride s and their features
cnn_scale(vfeat, s) ==
    [xyz |-> [v \in DOMAIN vfeat.coordinates |->
                 <<vfeat.coordinates[v][4] \div s, vfeat.coordinates[v][3] \div s,
                   vfeat.coordinates[v][2] \div s>>],
     features |-> vfeat.features]

\* Line 146: torch.split(points, [3, 1], dim=-1)
split_points(pts) ==
    [xyz |-> [i \in DOMAIN pts |-> pts[i].xyz],
     features |-> [i \in DOMAIN pts |-> pts[i].f]]

\* Lines 145-146: [split(points)] + cnn_out, the backbone returning n scales
build_cnn_out(pts, vfeat, n) ==
    <<split_points(pts)>> \o [s \in 1..n |-> cnn_scale(vfeat, s)]

\* Farthest point sampling: squared distance of point j to the selected set
MinDist2(xyz, j, sel) ==
    SetMin({Dist2(xyz[j], xyz[sel[m]]) : m \in DOMAIN sel})

Farthest(xyz, sel) ==
    {j \in DOMAIN xyz :
        \A k \in DOMAIN xyz : MinDist2(xyz, k, sel) <= MinDist2(xyz, j, sel)}

RECURSIVE FPSExtend(_, _, _)
FPSExtend(xyz, sel, K) ==
    IF Len(sel) >= K THEN {sel}
    ELSE UNION {FPSExtend(xyz, Append(sel, j), K) : j \in Farthest(xyz, sel)}

\* furthest_point_sample(points, n_keypoints): every sequence the greedy rule
\* can return, starting from the first point
furthest_point_sample(xyz, K) == FPSExtend(xyz, <<1>>, K)

\* Lines 116-119: the keypoints of an index sequence
gather_keypoints(pts, idx) == [i \in DOMAIN idx |-> pts[idx[i]].xyz]

\* Output channels of one PointnetSAModuleMSG: sum_k(mlps[k][-1]) (line 129)
out_channels(mlp) == SumSeq([k \in DOMAIN mlp |-> mlp[k][Len(mlp[k])]])

\* PointnetSAModuleMSG on one scale: per keypoint, the number of centres in
\* the unit ball around it, on every output channel
pnet(mlp, scale, keypoint_xyz) ==
    [c \in 1..out_channels(mlp) |->
        [i \in DOMAIN keypoint_xyz |->
            c * Cardinality({v \in DOMAIN scale.xyz :
                                Dist2(scale.xyz[v], keypoint_xyz[i]) <= 1})]]

\* Lines 132-138: zip(cnn_out, self.pnets) stops at the shorter of the two
pnet_forward(scales, mlps, keypoint_xyz) ==
    [i \in 1..Min(Len(scales), Len(mlps)) |->
        pnet(mlps[i], scales[i], keypoint_xyz)]

\* F.grid_sample at one normalized index: a value of the sampled location
grid_sample_value(c, ix) ==
    IF ix[1].k = "fin" /\ ix[2].k = "fin"
    THEN 10 * c + ix[1].n + 3 * ix[2].n
    ELSE 0 - c

\* Faulty variant: the BEV rows come out in the reverse keypoint order
bev_forward_Reversed(shape, keypoint_xyz, voxel_offset, cell) ==
    LET K == Len(keypoint_xyz)
        norm == compute_bev_indices(
                    [i \in DOMAIN keypoint_xyz |->
                        <<keypoint_xyz[K + 1 - i][1], keypoint_xyz[K + 1 - i][2]>>],
                    voxel_offset, cell, shape.H, shape.W)
    IN [c \in 1..(shape.C * shape.D) |->
           [i \in DOMAIN keypoint_xyz |-> grid_sample_value(c, norm[i])]]

\* Lines 43-48: BEV_FeatureGatherer.forward, C * D channels
bev_forward(shape, keypoint_xyz, voxel_offset, cell) ==
    LET norm == compute_bev_indices(
                    [i \in DOMAIN keypoint_xyz |->
                        <<keypoint_xyz[i][1], keypoint_xyz[i][2]>>],
                    voxel_offset, cell, shape.H, shape.W)
    IN [c \in 1..(shape.C * shape.D) |->
           [i \in DOMAIN keypoint_xyz |-> grid_sample_value(c, norm[i])]]

\* Line 150: torch.cat(pnet_out + [bev_out], dim=1)
cat_features(pn, bev) == Concat(pn) \o bev

\* Line 151: Boxes3D(20 * torch.rand((25, 7)))
NumProposals == 25
BoxDim == 7
RandScale == 20
RandDen == 4         \* torch.rand draws q / RandDen, q in 0..RandDen-1
MaxSeed == 1         \* random draws tried per pass: seeds 0..MaxSeed

rand(seed, b, j) == (seed * (b + j) + b * j + seed) % RandDen

\* Faulty variant: values drawn from (0, 20] instead of [0, 20)
random_proposals_Inclusive(seed) ==
    [b \in 1..NumProposals |->
        [j \in 1..BoxDim |-> RandScale * (rand(seed, b, j) + 1)]]

random_proposals(seed) ==
    [b \in 1..NumProposals |-> [j \in 1..BoxDim |-> RandScale * rand(seed, b, j)]]

\* The descriptor of keypoint i: column i of the fused table
descriptor(feat, i) == [c \in DOMAIN feat |-> feat[c][i]]

(***************************************************************************)
(* PV_RCNN.forward, one statement at a time                                *)
(***************************************************************************)
MaxPoints == 2       \* points per cloud, from 1
MaxKeypoints == 2    \* cfg.n_keypoints ranges over 1..MaxKeypoints
MaxScales == 1       \* scales the backbone returns, from 0

PointChoices ==
    {[xyz |-> <<0, 0, 0>>, f |-> 1], [xyz |-> <<2, 1, 0>>, f |-> 0],
     [xyz |-> <<5, 0, 0>>, f |-> 1]}

Clouds == UNION {[1..n -> PointChoices] : n \in 1..MaxPoints}

\* cfg.mlps: per module, per radius group, the layer widths
MlpChoices ==
    {<< << <<1>> >> >>,
     << << <<2, 1>> >>, << <<1>>, <<1, 1>> >> >>,
     << << <<1>> >>, << <<1>> >>, << <<2>> >> >>}

Configs == [n_keypoints : 1..MaxKeypoints, mlps : MlpChoices]

\* The rest of the configuration, the same in every run
FwdGrid ==
    [voxel_size |-> <<2, 1, 1>>, grid_bounds |-> <<0, 0, 0, 4, 2, 1>>,
     max_voxels |-> 2, max_num_points |-> 2]
FwdBev == [voxel_offset |-> <<0, 0>>, cell |-> <<1, 1>>]
FwdRoi == [radius |-> 3, grid_size |-> 1]

VolumeShapes ==
    {[C |-> 1, D |-> 2, H |-> 3, W |-> 4], [C |-> 2, D |-> 1, H |-> 4, W |-> 3]}

\* The statements of forward (lines 144-153) in program order
StageOrder ==
    <<"generate", "vfe", "cnn", "sample", "pnet", "bev", "cat", "proposals",
      "roi">>

\* Faulty variant: pnet_forward called before sample_keypoints
StageAfter_PnetFirst(p) ==
    LET order == <<"generate", "vfe", "cnn", "pnet", "sample", "bev", "cat",
                   "proposals", "roi">>
        i == CHOOSE j \in DOMAIN order : order[j] = p
    IN IF i = Len(order) THEN "done" ELSE order[i + 1]

StageAfter(p) ==
    LET i == CHOOSE j \in DOMAIN StageOrder : StageOrder[j] = p
    IN IF i = Len(StageOrder) THEN "done" ELSE StageOrder[i + 1]

Advance == /\ pc' = StageAfter(pc)
           /\ trace' = Append(trace, pc)

Called(name, arg) ==
    [c \in DOMAIN calls \cup {name} |-> IF c = name THEN arg ELSE calls[c]]

FwdIdle ==
    /\ pc = "idle"
    /\ points = <<>>
    /\ cfg = <<>>
    /\ voxels = <<>>
    /\ vfe_out = <<>>
    /\ cnn_out = <<>>
    /\ final_volume = <<>>
    /\ kp_indices = <<>>
    /\ keypoints = <<>>
    /\ pnet_out = <<>>
    /\ bev_out = <<>>
    /\ features = <<>>
    /\ proposals = <<>>
    /\ pooled = <<>>
    /\ trace = <<>>
    /\ calls = <<>>

FwdStart ==
    /\ pc = "generate"
    /\ points \in Clouds
    /\ cfg \in Configs
    /\ voxels = <<>>
    /\ vfe_out = <<>>
    /\ cnn_out = <<>>
    /\ final_volume = <<>>
    /\ kp_indices = <<>>
    /\ keypoints = <<>>
    /\ pnet_out = <<>>
    /\ bev_out = <<>>
    /\ features = <<>>
    /\ proposals = <<>>
    /\ pooled = <<>>
    /\ trace = <<>>
    /\ calls = <<>>

\* Line 102
Generate ==
    /\ pc = "generate"
    /\ voxels' = generate([i \in DOMAIN points |-> points[i].xyz],
                           build_voxel_generator(FwdGrid))
    /\ Advance
    /\ UNCHANGED <<bevVars, voxVars, roiVars>>
    /\ UNCHANGED <<points, cfg, vfe_out, cnn_out, final_volume, kp_indices,
                   keypoints, pnet_out, bev_out, features, proposals, pooled,
                   calls>>

\* Lines 103-108
Vfe ==
    /\ pc = "vfe"
    /\ vfe_out' = voxelize(voxels, points)
    /\ Advance
    /\ UNCHANGED <<bevVars, voxVars, roiVars>>
    /\ UNCHANGED <<points, cfg, voxels, cnn_out, final_volume, kp_indices,
                   keypoints, pnet_out, bev_out, features, proposals, pooled,
                   calls>>

\* Lines 145-146
Cnn ==
    /\ pc = "cnn"
    /\ \E n \in 0..MaxScales, shape \in VolumeShapes :
          /\ cnn_out' = build_cnn_out(points, vfe_out, n)
          /\ final_volume' = shape
    /\ Advance
    /\ UNCHANGED <<bevVars, voxVars, roiVars>>
    /\ UNCHANGED <<points, cfg, voxels, vfe_out, kp_indices, keypoints,
                   pnet_out, bev_out, features, proposals, pooled, calls>>

\* Line 147: sample_keypoints.  The sampler is handed the points and measures
\* distance over their xyz.
SampleKeypoints ==
    /\ pc = "sample"
    /\ \E idx \in furthest_point_sample([i \in DOMAIN points |-> points[i].xyz],
                                        cfg.n_keypoints) :
          /\ kp_indices' = idx
          /\ keypoints' = gather_keypoints(points, idx)
    /\ Advance
    /\ UNCHANGED <<bevVars, voxVars, roiVars>>
    /\ UNCHANGED <<points, cfg, voxels, vfe_out, cnn_out, final_volume,
                   pnet_out, bev_out, features, proposals, pooled, calls>>

\* Line 148
PnetForward ==
    /\ pc = "pnet"
    /\ pnet_out' = pnet_forward(cnn_out, cfg.mlps, keypoints)
    /\ calls' = Called("pnet", keypoints)
    /\ Advance
    /\ UNCHANGED <<bevVars, voxVars, roiVars>>
    /\ UNCHANGED <<points, cfg, voxels, vfe_out, cnn_out, final_volume,
                   kp_indices, keypoints, bev_out, features, proposals, pooled>>

\* Line 149
BevGather ==
    /\ pc = "bev"
    /\ bev_out' = bev_forward(final_volume, keypoints, FwdBev.voxel_offset,
                              FwdBev.cell)
    /\ calls' = Called("bev", keypoints)
    /\ Advance
    /\ UNCHANGED <<bevVars, voxVars, roiVars>>
    /\ UNCHANGED <<points, cfg, voxels, vfe_out, cnn_out, final_volume,
                   kp_indices, keypoints, pnet_out, features, proposals, pooled>>

\* Line 150
Cat ==
    /\ pc = "cat"
    /\ features' = cat_features(pnet_out, bev_out)
    /\ Advance
    /\ UNCHANGED <<bevVars, voxVars, roiVars>>
    /\ UNCHANGED <<points, cfg, voxels, vfe_out, cnn_out, final_volume,
                   kp_indices, keypoints, pnet_out, bev_out, proposals, pooled,
                   calls>>

\* Line 151
Proposals ==
    /\ pc = "proposals"
    /\ \E seed \in 0..MaxSeed : proposals' = random_proposals(seed)
    /\ Advance
    /\ UNCHANGED <<bevVars, voxVars, roiVars>>
    /\ UNCHANGED <<points, cfg, voxels, vfe_out, cnn_out, final_volume,
                   kp_indices, keypoints, pnet_out, bev_out, features, pooled,
                   calls>>

\* Lines 152-153
RoiPool ==
    /\ pc = "roi"
    /\ pooled' = RoiGridPool(proposals, keypoints,
                     [i \in DOMAIN keypoints |-> descriptor(features, i)],
                     Len(features), FwdRoi.radius, RandDen, FwdRoi.grid_size)
    /\ calls' = Called("roi", [keypoints |-> keypoints, boxes |-> proposals])
    /\ Advance
    /\ UNCHANGED <<bevVars, voxVars, roiVars>>
    /\ UNCHANGED <<points, cfg, voxels, vfe_out, cnn_out, final_volume,
                   kp_indices, keypoints, pnet_out, bev_out, features,
                   proposals>>

(***************************************************************************)
(* Specifications                                                          *)
(***************************************************************************)
BevInit == BevStart /\ VoxIdle /\ RoiIdle /\ FwdIdle
BevNext == BevIndices /\ UNCHANGED <<voxVars, roiVars, fwdVars>>
SpecBEV == BevInit /\ [][BevNext]_vars

VoxInit == VoxStart /\ BevIdle /\ RoiIdle /\ FwdIdle
VoxNext == VoxStep /\ UNCHANGED <<bevVars, roiVars, fwdVars>>
SpecVox == VoxInit /\ [][VoxNext]_vars

RoiInit == RoiStart /\ BevIdle /\ VoxIdle /\ FwdIdle
RoiNext == RoiStep /\ UNCHANGED <<bevVars, voxVars, fwdVars>>
SpecRoi == RoiInit /\ [][RoiNext]_vars

Init == FwdStart /\ BevIdle /\ VoxIdle /\ RoiIdle
Next ==
    \/ Generate
    \/ Vfe
    \/ Cnn
    \/ SampleKeypoints
    \/ PnetForward
    \/ BevGather
    \/ Cat
    \/ Proposals
    \/ RoiPool
Spec == Init /\ [][Next]_vars

(***************************************************************************)
(* Claims                                                                  *)
(***************************************************************************)
BevRaw == raw_bev_indices(bev_in.keypoint_xy, bev_in.voxel_offset, bev_in.cell)

\* v clamped onto [0, hi]: the nearest value of the range
NearestIn(v, hi) ==
    IF v.n < 0 THEN RatOfInt(0)
    ELSE IF RatLe(v, RatOfInt(hi)) THEN v ELSE RatOfInt(hi)

\* C1: after compute_bev_indices, every keypoint's clamped image index (x, y)
\* satisfies 0 <= x <= W-1 and 0 <= y <= H-1, an out-of-range component being
\* replaced by the nearest border value, also when H differs from W.
C1_IndexClampedToImage ==
    bev_pc = "done" =>
        \A i \in DOMAIN bev_clamped :
            /\ RatEq(bev_clamped[i][1], NearestIn(BevRaw[i][1], bev_in.W - 1))
            /\ RatEq(bev_clamped[i][2], NearestIn(BevRaw[i][2], bev_in.H - 1))

\* C2: every normalized coordinate lies in [-1, +1]; index 0 is returned as
\* exactly -1 and the largest index the clamp admits on the axis as exactly +1.
C2_NormalizedOntoUnitRange ==
    bev_pc = "done" =>
        \A i \in DOMAIN bev_norm : \A a \in 1..2 :
            LET v == bev_norm[i][a]
                top == image_dims(bev_in.H, bev_in.W)[a]
            IN /\ v.k = "fin"
               /\ 0 - v.d <= v.n
               /\ v.n <= v.d
               /\ (BevRaw[i][a].n = 0 /\ top > 0) => v.n = 0 - v.d
               /\ (top > 0 /\ RatEq(BevRaw[i][a], RatOfInt(top))) => v.n = v.d

ConfiguredChannels ==
    SumSeq([i \in DOMAIN cfg.mlps |-> out_channels(cfg.mlps[i])])

AfterSampling == pc \in {"pnet", "bev", "cat", "proposals", "roi", "done"}
AfterFusion == pc \in {"proposals", "roi", "done"}

\* C3: for any number of configured extractors and of backbone scales, the
\* fused descriptor has as many channels as all configured extractors put out
\* plus the C * D BEV channels, and no configured extractor and no backbone
\* scale is left out of the concatenation.
C3_FusedChannelCount ==
    AfterFusion =>
        /\ Len(features) = ConfiguredChannels + final_volume.C * final_volume.D
        /\ Len(pnet_out) = Len(cfg.mlps)
        /\ Len(pnet_out) = Len(cnn_out)

\* C4: for a cloud of N >= K points, coincident points included, sampling
\* returns exactly K pairwise distinct indices, and a permutation of all N
\* points when N = K.
C4_DistinctKeypointIndices ==
    (AfterSampling /\ Len(points) >= cfg.n_keypoints) =>
        /\ Len(kp_indices) = cfg.n_keypoints
        /\ \A i, j \in DOMAIN kp_indices :
              i # j => kp_indices[i] # kp_indices[j]
        /\ Len(points) = cfg.n_keypoints =>
              {kp_indices[i] : i \in DOMAIN kp_indices} = DOMAIN points

\* C5: with fewer points than keypoints (N < K) the pass is aborted: no
\* keypoint set is produced and no stage after sampling runs.
C5_TooFewPointsRejected ==
    Len(points) < cfg.n_keypoints =>
        /\ ~AfterSampling
        /\ keypoints = <<>>
        /\ pooled = <<>>

VoxGen == build_voxel_generator(vox_in.cfg)

\* Point i is held by some voxel of the state
VoxKept(state, i) ==
    \E v \in DOMAIN state : \E m \in DOMAIN state[v].pts : state[v].pts[m] = i

VoxCaps ==
    vox_in # <<>> =>
        /\ Len(vox_state) <= vox_in.cfg.max_voxels
        /\ \A v \in DOMAIN vox_state :
              Len(vox_state[v].pts) <= vox_in.cfg.max_num_points
        /\ (vox_i <= Len(vox_in.points)) => ENABLED VoxStep

\* The voxel of the point under the cursor is already full
VoxFull ==
    \E v \in DOMAIN vox_state :
        /\ vox_state[v].coord = VoxelCoord(vox_in.points[vox_i], VoxGen)
        /\ Len(vox_state[v].pts) >= vox_in.cfg.max_num_points

\* The voxel of the point under the cursor is new and the voxel cap is reached
VoxNewAtCap ==
    /\ \A v \in DOMAIN vox_state :
          vox_state[v].coord # VoxelCoord(vox_in.points[vox_i], VoxGen)
    /\ Len(vox_state) >= vox_in.cfg.max_voxels

VoxOutside == ~InBounds(vox_in.points[vox_i], VoxGen)

\* What one step does to the voxels that exist: nothing, or the point under
\* the cursor appended to its own voxel; a dropped point changes nothing.
VoxStepKeepsOrder ==
    /\ \A v \in DOMAIN vox_state :
          /\ v \in DOMAIN vox_state'
          /\ vox_state'[v].coord = vox_state[v].coord
          /\ \/ vox_state'[v].pts = vox_state[v].pts
             \/ /\ vox_state'[v].pts = Append(vox_state[v].pts, vox_i)
                /\ vox_state[v].coord = VoxelCoord(vox_in.points[vox_i], VoxGen)
    /\ \A v \in DOMAIN vox_state' \ DOMAIN vox_state :
          vox_state'[v] = Voxel(VoxelCoord(vox_in.points[vox_i], VoxGen), <<vox_i>>)
    /\ ~VoxKept(vox_state', vox_i) => vox_state' = vox_state

\* C6 (as claimed): the caps hold; a point is dropped only if its voxel is
\* full, or its voxel is new and the voxel cap is reached; a dropped point
\* changes no voxel and no step fails.
C6_DroppedOnlyForCaps ==
    /\ []VoxCaps
    /\ [][/\ VoxStepKeepsOrder
          /\ ~VoxKept(vox_state', vox_i) <=> (VoxFull \/ VoxNewAtCap)]_vars

\* C6 (amended): as above, a point outside the grid bounds being dropped too.
C6_DroppedForCapsOrBounds ==
    /\ []VoxCaps
    /\ [][/\ VoxStepKeepsOrder
          /\ ~VoxKept(vox_state', vox_i)
                <=> (VoxOutside \/ VoxFull \/ VoxNewAtCap)]_vars

VoxDropped(i) == i < vox_i /\ ~VoxKept(vox_state, i)

C6_Witness ==
    /\ vox_in # <<>>
    /\ vox_i > Len(vox_in.points)
    /\ \E i, j, k \in DOMAIN vox_in.points :
          /\ VoxDropped(i) /\ ~InBounds(vox_in.points[i], VoxGen)
          /\ VoxDropped(j) /\ InBounds(vox_in.points[j], VoxGen)
          /\ VoxKept(vox_state, k) /\ k < j
          /\ VoxelCoord(vox_in.points[k], VoxGen)
                = VoxelCoord(vox_in.points[j], VoxGen)

RoiNear(e) ==
    {i \in DOMAIN roi_in.keypoints :
        Dist2([a \in 1..3 |-> roi_in.keypoints[i][a] * 2 * RoiCfg.grid_size],
              GridPoint(roi_in.boxes[e[1]], 1, RoiCfg.grid_size, e[2]))
            <= (roi_in.radius * 2 * RoiCfg.grid_size) * (roi_in.radius * 2 * RoiCfg.grid_size)}

RoiZeroFallback ==
    /\ \A e \in DOMAIN roi_out : RoiNear(e) = {} => roi_out[e] = <<0>>
    /\ (roi_in # <<>> /\ roi_k <= RoiPairs(roi_in.boxes, RoiCfg.grid_size))
          => ENABLED RoiStep

StagePos(name) ==
    IF \E i \in DOMAIN trace : trace[i] = name
    THEN CHOOSE i \in DOMAIN trace : trace[i] = name
    ELSE 0

\* The order claimed: <<a, b>> when a completes before b starts
StageBefore ==
    {<<"generate", "vfe">>, <<"vfe", "cnn">>, <<"cnn", "pnet">>,
     <<"cnn", "bev">>, <<"pnet", "cat">>, <<"bev", "cat">>, <<"cat", "roi">>,
     <<"sample", "pnet">>, <<"sample", "bev">>, <<"sample", "roi">>}

\* C8: the stages run in the order Voxelizer, VFE, backbone, {grouper, BEV
\* gatherer}, fusion, ROI grid pooling, each after the one before it has
\* completed, and keypoint sampling completes before its first consumer.
C8_StagesInOrder ==
    /\ \A o \in StageBefore :
          /\ StagePos(o[2]) > 0 => (StagePos(o[1]) > 0 /\ StagePos(o[1]) < StagePos(o[2]))
          /\ pc = o[2] => StagePos(o[1]) > 0
    /\ \A i, j \in DOMAIN trace : i # j => trace[i] # trace[j]
    /\ pc = "done" => \A o \in StageBefore : StagePos(o[2]) > 0

C8_Witness == pc = "done" /\ StagePos("roi") = Len(trace) /\ StagePos("generate") = 1

KeypointsAligned ==
    /\ AfterSampling => keypoints = gather_keypoints(points, kp_indices)
    /\ "pnet" \in DOMAIN calls => calls["pnet"] = keypoints
    /\ "bev" \in DOMAIN calls => calls["bev"] = keypoints
    /\ "roi" \in DOMAIN calls => calls["roi"].keypoints = keypoints
    /\ \A i \in DOMAIN keypoints :
          /\ \A s \in DOMAIN pnet_out : \A c \in DOMAIN pnet_out[s] :
                pnet_out[s][c][i]
                    = pnet(cfg.mlps[s], cnn_out[s], <<keypoints[i]>>)[c][1]
          /\ \A c \in DOMAIN bev_out :
                bev_out[c][i]
                    = bev_forward(final_volume, <<keypoints[i]>>,
                                  FwdBev.voxel_offset, FwdBev.cell)[c][1]
          /\ features # <<>> =>
                descriptor(features, i)
                    = Concat([s \in DOMAIN pnet_out |-> descriptor(pnet_out[s], i)])
                      \o descriptor(bev_out, i)

\* C9: the keypoint sequence sample_keypoints produced is changed by no later
\* stage, every consumer receives that same sequence, and position i of every
\* per-scale table, of the BEV table and of the fused descriptor is keypoint i.
C9_KeypointOrderStable ==
    /\ []KeypointsAligned
    /\ [][AfterSampling => keypoints' = keypoints]_vars

C9_Witness ==
    /\ pc = "done"
    /\ Len(keypoints) >= 2
    /\ keypoints[1] # keypoints[2]
    /\ DOMAIN calls = {"pnet", "bev", "roi"}
    /\ Len(pnet_out) >= 2

\* C10: the boxes handed to ROI grid pooling are the ones forward generates
\* itself: exactly 25 boxes of 7 values, each value in [0, 20), whatever the
\* point cloud; the pooled output has 25 boxes.
C10_ProposalsGeneratedInside ==
    /\ pc \in {"roi", "done"} =>
          /\ Len(proposals) = 25
          /\ \A b \in DOMAIN proposals :
                /\ Len(proposals[b]) = 7
                /\ \A j \in DOMAIN proposals[b] :
                      0 <= proposals[b][j] /\ proposals[b][j] < 20 * RandDen
    /\ pc \in {"roi", "done"} =>
          \E seed \in 0..MaxSeed :
              proposals = [b \in 1..25 |-> [j \in 1..7 |-> 20 * rand(seed, b, j)]]
    /\ pc = "done" =>
          /\ calls["roi"].boxes = proposals
          /\ DOMAIN pooled = 1..25

C10_Witness ==
    /\ pc = "done"
    /\ Len(pooled) = 25
    /\ \E b \in DOMAIN proposals : proposals[b][1] > 0
    /\ \E b \in DOMAIN proposals : proposals[b][1] = 0

====
